---- MODULE Spec2Model ----
(***************************************************************************)
(* SnapOCR: region selection overlay, panel placement, result review,      *)
(* pinned windows and the capture flow.                                    *)
(*                                                                         *)
(* One module, several specifications over the same variables:             *)
(*   SpecSelect  - one SelectionOverlay.select() session                   *)
(*   SpecPlace   - ResultPanel.calculate_position on drawn inputs          *)
(*   SpecReview  - one SnapOCR._show_result_ui() session                   *)
(*   SpecPinned  - PinnedWindow instances under a live Tk root             *)
(*   SpecCapture - one run of main(): selection, recognition, review       *)
(*   SpecWinSelect - one select_region() session of the Windows capture    *)
(*   SpecHotkey  - HotkeyManager over the Windows hotkey manager           *)
(* A specification leaves the variables of the other parts untouched.      *)
(***************************************************************************)
EXTENDS Integers, Sequences, FiniteSets, TLC

(***************************************************************************)
(* Bounds of the model.                                                    *)
(***************************************************************************)
\* size of the captured virtual screen in the selection session
ScreenW == 7
ScreenH == 6
\* pointer events may carry coordinates this far outside the screen
\* (the pointer is grabbed while button 1 is held, so a drag that leaves the
\* canvas still delivers motion/release events, with out-of-range x / y)
CoordMargin == 1

(***************************************************************************)
(* Program constants.                                                      *)
(***************************************************************************)
MIN_SELECTION_SIZE == 5
GAP == 10

(***************************************************************************)
(* Python's None, and Optional values.  Points are <<x, y>>, so None is    *)
(* the empty tuple; an Optional record is <<>> or <<r>>.                   *)
(***************************************************************************)
None == <<>>
Some(v) == <<v>>

Min(a, b) == IF a <= b THEN a ELSE b
Max(a, b) == IF a >= b THEN a ELSE b
Abs(a) == IF a >= 0 THEN a ELSE -a

\* coordinates a pointer event may carry: on and off the screen, its edges,
\* and displacements below, at and above MIN_SELECTION_SIZE
EventXs == {0 - CoordMargin, 0, MIN_SELECTION_SIZE, ScreenW, ScreenW + CoordMargin}
EventYs == {0 - CoordMargin, 0, MIN_SELECTION_SIZE - 1, ScreenH}

VARIABLES
    \* ---- SelectionOverlay.select ----
    selPc,              \* "idle" | "loop" (root.mainloop running or just left) |
                        \* "returned" | "raised" (left by an exception)
    overlay_root,       \* the tk.Tk() overlay window: "none" | "alive" | "destroyed" |
                        \* "partial" (created, building it failed, still on screen)
    selection,          \* the selection dict: start, end, done, cancelled
    selection_rect_id,     \* coordinates of the canvas item selection_rect_id[0], or None
    dim_rects,          \* coordinates of the canvas items in dim_rect_ids, in creation order
    screen_size,        \* <<screen_width, screen_height>> of the capture, or None
    self_result,        \* self._result / what select() returned: None or Some(SelectionResult)
    saveError,          \* the crop/save try block raised
    lastPress,          \* history: point of the most recent <ButtonPress-1>, or None
    releasePt,          \* history: point of the most recent <ButtonRelease-1>, or None
    cancelEv,           \* history: an <Escape> or <ButtonPress-3> was delivered
    \* ---- ResultPanel.calculate_position / placement of the review window ----
    rect,               \* selection_rect: <<sx, sy, sw, sh>>
    panel_size,         \* <<pw, ph>>
    screen_bounds,      \* <<scr_w, scr_h>>
    position,           \* the returned <<x, y>>, or None before the call
    \* ---- SnapOCR._show_result_ui ----
    revPc,              \* "idle" | "loop" (root.mainloop) | "returned" | "raised"
    review_root,        \* the tk.Tk() review window: "none" | "alive" | "destroyed" |
                        \* "partial"
    text,               \* recognized text (a string: a sequence of characters)
    latex,              \* None or Some(string)
    result,             \* format_result(text, latex)
    final_result,       \* final_result[0]: None or Some(string)
    returned,           \* what _show_result_ui returned: None or Some(string)
    clipboard_calls,    \* the texts passed to ClipboardManager.copy, in order
    clipboard,          \* content of the system clipboard: None or Some(string)
    pinned_objs,        \* the PinnedWindow instances constructed so far
    pinned_windows,     \* PinnedWindow._pinned_windows: indices into pinned_objs
    review_events,      \* history: the button / key / menu events handled
    \* ---- PinnedWindow used on its own ----
    orphans,            \* live Toplevel windows that no PinnedWindow._window refers to
    drag_origin,        \* history, per instance: None or Some(<<p0, pos0>>), the pointer
                        \* and window position at the last press on its current window
    ops,                \* history: number of operations on PinnedWindow instances
    last_op,            \* history: <<name, instance>> of the last operation
    prev_op,            \* history: the operation before the last one
    \* ---- main() / SnapOCR.capture_and_extract / SnapOCR.capture_with_ui ----
    capPc,              \* "none" | "start" | "selected" | "review" | "finished" | "exited"
    mode,               \* args.ui: "plain" | "ui"
    flow,               \* the function doing the work: "capture_and_extract" | "capture_with_ui"
    select_out,         \* what select_region() returned: "None" | "SelectionResult" | "str"
    temp_file,          \* the temporary image file exists
    temp_made,          \* history: select_region() wrote a temporary image file
    recognition,        \* history: how extract_text went
    messages,           \* the 'no text detected' reports made, in order
    cap_return,         \* value returned by the capture function: None or Some(string)
    cap_raised,         \* exception leaving the capture function, or "none"
    exit_code,          \* "none" | "0" | "1" | "uncaught" (main() left by an exception)
    \* ---- WindowsScreenshotCapture.select_region ----
    winPc,              \* "idle" | "loop" (root.mainloop running or just left) | "returned"
    win_root,           \* "none" | "alive" | "destroyed": the tk.Tk() overlay window
    win_selection,      \* the selection dict: start, end, done
    win_canvas_rect,    \* the canvas item tagged "selection": <<x1, y1, x2, y2>>, or None
    win_grab,           \* history: the region capture: "none" | "ok" | "failed"
    win_event_seen,     \* history: a pointer or key event was handled
    win_result          \* what select_region() returned: None or Some(path)

selVars == <<selPc, overlay_root, selection, selection_rect_id, dim_rects,
             screen_size, self_result, saveError, lastPress, releasePt, cancelEv>>

placeVars == <<rect, panel_size, screen_bounds, position>>

revVars == <<revPc, review_root, text, latex, result, final_result, returned,
             clipboard_calls, clipboard, pinned_objs, pinned_windows, review_events>>

pinVars == <<orphans, drag_origin, ops, last_op, prev_op>>

capVars == <<capPc, mode, flow, select_out, temp_file, temp_made, recognition,
             messages, cap_return, cap_raised, exit_code>>

winVars == <<winPc, win_root, win_selection, win_canvas_rect, win_grab,
             win_event_seen, win_result>>

\* the parts no other part reads or writes
\* ---- HotkeyManager over WindowsHotkeyManager ----
VARIABLES
    hk_callbacks,       \* HotkeyManager._callbacks: hotkey string -> callback, or Absent
    hk_platform,        \* the WindowsHotkeyManager: _hotkeys, _listener, _running
    hk_ret,             \* what the last call returned ("raised": left by an exception)
    hk_listening        \* history: start() has left the manager listening and no
                        \* stop() was called since

hkVars == <<hk_callbacks, hk_platform, hk_ret, hk_listening>>

extVars == <<winVars, hkVars>>

vars == <<selVars, placeVars, revVars, pinVars, capVars, extVars>>

nonSelVars == <<placeVars, revVars, pinVars, capVars, extVars>>
nonPlaceVars == <<selVars, revVars, pinVars, capVars, extVars>>
nonRevVars == <<selVars, pinVars, capVars, extVars>>
nonWinVars == <<selVars, placeVars, revVars, pinVars, capVars, hkVars>>
nonHkVars == <<selVars, placeVars, revVars, pinVars, capVars, winVars>>
\* what the PinnedWindow operations leave alone: they use pinned_objs,
\* pinned_windows, clipboard_calls and clipboard besides pinVars
nonPinVars == <<selVars, placeVars, revPc, review_root, text, latex, result,
                final_result, returned, review_events, capVars, extVars>>

(***************************************************************************)
(* SelectionOverlay.select                                                 *)
(***************************************************************************)
\* selection = {'start': None, 'end': None, 'done': False, 'cancelled': False}
SelectionInit == [start |-> None, end |-> None, done |-> FALSE, cancelled |-> FALSE]

SelIdle ==
    /\ selPc = "idle"
    /\ overlay_root = "none"
    /\ selection = SelectionInit
    /\ selection_rect_id = None
    /\ dim_rects = <<>>
    /\ screen_size = None
    /\ self_result = None
    /\ saveError = FALSE
    /\ lastPress = None
    /\ releasePt = None
    /\ cancelEv = FALSE

\* the placement variables while no placement is being computed
PlaceIdle ==
    /\ rect = <<0, 0, 0, 0>>
    /\ panel_size = <<0, 0>>
    /\ screen_bounds = <<0, 0>>
    /\ position = None

\* the review variables while no review session exists
RevIdle ==
    /\ revPc = "idle"
    /\ review_root = "none"
    /\ text = <<>>
    /\ latex = None
    /\ result = <<>>
    /\ final_result = None
    /\ returned = None
    /\ clipboard_calls = <<>>
    /\ clipboard = None
    /\ pinned_objs = <<>>
    /\ pinned_windows = <<>>
    /\ review_events = <<>>

\* bound on the PinnedWindow instances constructed directly
MaxInstances == 2

\* the PinnedWindow history variables while no instance was used directly
PinIdle ==
    /\ orphans = 0
    /\ drag_origin = [i \in 1..MaxInstances |-> None]
    /\ ops = 0
    /\ last_op = <<"none", 0>>
    /\ prev_op = <<"none", 0>>

\* selection = {'start': None, 'end': None, 'done': False}
WinSelectionInit == [start |-> None, end |-> None, done |-> FALSE]

\* the Windows selection variables while no such session exists
WinIdle ==
    /\ winPc = "idle"
    /\ win_root = "none"
    /\ win_selection = WinSelectionInit
    /\ win_canvas_rect = None
    /\ win_grab = "none"
    /\ win_event_seen = FALSE
    /\ win_result = None

\* WindowsHotkeyManager.__init__: no hotkeys, no listener, not running;
\* a dict is the set of its <<key, value>> items; failed records (history) that a
\* listener stop or start has failed
PlatformInit == [hotkeys |-> {}, listener |-> None, running |-> FALSE,
                 failed |-> FALSE]

\* HotkeyManager.__init__, before any call
HkIdle ==
    /\ hk_callbacks = {}
    /\ hk_platform = PlatformInit
    /\ hk_ret = "none"
    /\ hk_listening = FALSE

ExtIdle == WinIdle /\ HkIdle

\* the capture-flow variables while main() is not running
CapIdle ==
    /\ capPc = "none"
    /\ mode = "none"
    /\ flow = "none"
    /\ select_out = "none"
    /\ temp_file = FALSE
    /\ temp_made = FALSE
    /\ recognition = "none"
    /\ messages = <<>>
    /\ cap_return = None
    /\ cap_raised = "none"
    /\ exit_code = "none"

\* how the toolkit calls that build a session's window can go: all succeed,
\* tk.Tk() raises (no window exists), or a later call raises (the window
\* exists, half built); nothing in either session catches the exception
UiOutcomes == {"ok", "no_window", "widget_error"}

\* select() up to root.mainloop(): imports, full-screen capture, window creation.
\* A failed import or capture returns None before any window exists; a
\* toolkit failure leaves select() as an exception.
SelectBegin(captureOk, ui) ==
    /\ selPc = "idle"
    /\ IF captureOk
       THEN /\ screen_size' = <<ScreenW, ScreenH>>
            /\ overlay_root' = CASE ui = "ok" -> "alive"
                                 [] ui = "no_window" -> "none"
                                 [] OTHER -> "partial"
            /\ selPc' = IF ui = "ok" THEN "loop" ELSE "raised"
       ELSE /\ ui = "ok"
            /\ selPc' = "returned"
            /\ UNCHANGED <<screen_size, overlay_root>>
    /\ selection' = SelectionInit
    /\ self_result' = None
    /\ UNCHANGED <<selection_rect_id, dim_rects, saveError, lastPress, releasePt, cancelEv>>
    /\ UNCHANGED nonSelVars

\* draw_dimmed_overlay whose left strip runs over the full screen height
draw_dimmed_overlay_full_height(s, scr) ==
    IF s.start = None \/ s.end = None
    THEN <<>>
    ELSE LET x1 == s.start[1]
             y1 == s.start[2]
             x2 == s.end[1]
             y2 == s.end[2]
             left == Min(x1, x2)
             top == Min(y1, y2)
             right == Max(x1, x2)
             bottom == Max(y1, y2)
             screen_width == scr[1]
             screen_height == scr[2]
         IN  (IF top > 0 THEN << <<0, 0, screen_width, top>> >> ELSE <<>>)
          \o (IF bottom < screen_height
              THEN << <<0, bottom, screen_width, screen_height>> >> ELSE <<>>)
          \o (IF left > 0 THEN << <<0, 0, left, screen_height>> >> ELSE <<>>)
          \o (IF right < screen_width
              THEN << <<right, top, screen_width, bottom>> >> ELSE <<>>)

\* draw_dimmed_overlay(): the strips created for a selection dict s.
\* Each strip is <<x0, y0, x1, y1>> as passed to canvas.create_rectangle.
draw_dimmed_overlay(s, scr) ==
    IF s.start = None \/ s.end = None
    THEN <<>>
    ELSE LET x1 == s.start[1]
             y1 == s.start[2]
             x2 == s.end[1]
             y2 == s.end[2]
             left == Min(x1, x2)
             top == Min(y1, y2)
             right == Max(x1, x2)
             bottom == Max(y1, y2)
             screen_width == scr[1]
             screen_height == scr[2]
         IN  (IF top > 0 THEN << <<0, 0, screen_width, top>> >> ELSE <<>>)
          \o (IF bottom < screen_height
              THEN << <<0, bottom, screen_width, screen_height>> >> ELSE <<>>)
          \o (IF left > 0 THEN << <<0, top, left, bottom>> >> ELSE <<>>)
          \o (IF right < screen_width
              THEN << <<right, top, screen_width, bottom>> >> ELSE <<>>)

\* on_press that keeps the first start of the session
on_press_first_wins(p) ==
    /\ overlay_root = "alive"
    /\ selection' = IF selection.start = None
                    THEN [selection EXCEPT !.start = p, !.end = None]
                    ELSE [selection EXCEPT !.end = None]
    /\ lastPress' = p
    /\ UNCHANGED <<selPc, overlay_root, selection_rect_id, dim_rects, screen_size,
                   self_result, saveError, releasePt, cancelEv>>
    /\ UNCHANGED nonSelVars

\* on_press(event): start = (x, y), end = None.
on_press(p) ==
    /\ overlay_root = "alive"
    /\ selection' = [selection EXCEPT !.start = p, !.end = None]
    /\ lastPress' = p
    /\ UNCHANGED <<selPc, overlay_root, selection_rect_id, dim_rects, screen_size,
                   self_result, saveError, releasePt, cancelEv>>
    /\ UNCHANGED nonSelVars

\* on_motion(event): with a start, move end, redraw the outline and the strips.
on_motion(p) ==
    /\ overlay_root = "alive"
    /\ IF selection.start # None
       THEN LET s == [selection EXCEPT !.end = p]
            IN  /\ selection' = s
                /\ selection_rect_id' = <<Min(s.start[1], p[1]), Min(s.start[2], p[2]),
                                       Max(s.start[1], p[1]), Max(s.start[2], p[2])>>
                /\ dim_rects' = draw_dimmed_overlay(s, screen_size)
       ELSE UNCHANGED <<selection, selection_rect_id, dim_rects>>
    /\ UNCHANGED <<selPc, overlay_root, screen_size, self_result, saveError,
                   lastPress, releasePt, cancelEv>>
    /\ UNCHANGED nonSelVars

\* on_release that leaves the main loop with quit() and keeps the window.
on_release_quits(p) ==
    /\ overlay_root = "alive"
    /\ releasePt' = p
    /\ IF selection.start # None
       THEN /\ selection' = [selection EXCEPT !.end = p, !.done = TRUE]
            /\ overlay_root' = "quit"
       ELSE UNCHANGED <<selection, overlay_root>>
    /\ UNCHANGED <<selPc, selection_rect_id, dim_rects, screen_size, self_result,
                   saveError, lastPress, cancelEv>>
    /\ UNCHANGED nonSelVars

\* on_release(event): with a start, fix end, mark done, destroy the window.
on_release(p) ==
    /\ overlay_root = "alive"
    /\ releasePt' = p
    /\ IF selection.start # None
       THEN /\ selection' = [selection EXCEPT !.end = p, !.done = TRUE]
            /\ overlay_root' = "destroyed"
       ELSE UNCHANGED <<selection, overlay_root>>
    /\ UNCHANGED <<selPc, selection_rect_id, dim_rects, screen_size, self_result,
                   saveError, lastPress, cancelEv>>
    /\ UNCHANGED nonSelVars

\* on_escape(event): mark cancelled, destroy the window.
on_escape ==
    /\ overlay_root = "alive"
    /\ selection' = [selection EXCEPT !.cancelled = TRUE]
    /\ overlay_root' = "destroyed"
    /\ cancelEv' = TRUE
    /\ UNCHANGED <<selPc, selection_rect_id, dim_rects, screen_size, self_result,
                   saveError, lastPress, releasePt>>
    /\ UNCHANGED nonSelVars

\* on_right_click that marks cancelled but leaves the window
on_right_click_stays ==
    /\ overlay_root = "alive"
    /\ selection' = [selection EXCEPT !.cancelled = TRUE]
    /\ cancelEv' = TRUE
    /\ UNCHANGED <<selPc, overlay_root, selection_rect_id, dim_rects, screen_size,
                   self_result, saveError, lastPress, releasePt>>
    /\ UNCHANGED nonSelVars

\* on_right_click(event): mark cancelled, destroy the window.
on_right_click ==
    /\ overlay_root = "alive"
    /\ selection' = [selection EXCEPT !.cancelled = TRUE]
    /\ overlay_root' = "destroyed"
    /\ cancelEv' = TRUE
    /\ UNCHANGED <<selPc, selection_rect_id, dim_rects, screen_size, self_result,
                   saveError, lastPress, releasePt>>
    /\ UNCHANGED nonSelVars

\* a minimum-size check that rejects only when both sides are short
TooSmall_both(width, height) ==
    width < MIN_SELECTION_SIZE /\ height < MIN_SELECTION_SIZE

\* the minimum-size check of select()
TooSmall(width, height) ==
    width < MIN_SELECTION_SIZE \/ height < MIN_SELECTION_SIZE

\* the selection bounds computed by select(): <<left, top, width, height>>
SelectionBounds(s) ==
    LET left == Min(s.start[1], s.end[1])
        top == Min(s.start[2], s.end[2])
        right == Max(s.start[1], s.end[1])
        bottom == Max(s.start[2], s.end[2])
    IN  <<left, top, right - left, bottom - top>>

\* does select() reach the crop/save try block?
ReachesSave(s) ==
    /\ ~(s.cancelled \/ ~s.done)
    /\ ~(s.start = None \/ s.end = None)
    /\ ~TooSmall(SelectionBounds(s)[3], SelectionBounds(s)[4])

\* select() after root.mainloop() has returned; the main loop returns once the
\* window is destroyed (or the loop is quit, which no handler of select() does).
SelectFinish(saveOk) ==
    /\ selPc = "loop"
    /\ overlay_root \in {"destroyed", "quit"}
    /\ selPc' = "returned"
    /\ IF ReachesSave(selection)
       THEN /\ saveError' = ~saveOk
            /\ self_result' = IF saveOk
                         THEN Some([rect |-> SelectionBounds(selection),
                                    screen_width |-> screen_size[1],
                                    screen_height |-> screen_size[2]])
                         ELSE None
       ELSE /\ saveOk
            /\ self_result' = None
            /\ UNCHANGED saveError
    /\ UNCHANGED <<overlay_root, selection, selection_rect_id, dim_rects, screen_size,
                   lastPress, releasePt, cancelEv>>
    /\ UNCHANGED nonSelVars

SelNext ==
    \/ \E captureOk \in BOOLEAN, ui \in UiOutcomes : SelectBegin(captureOk, ui)
    \/ \E x \in EventXs, y \in EventYs : on_press(<<x, y>>)
    \/ \E x \in EventXs, y \in EventYs : on_motion(<<x, y>>)
    \/ \E x \in EventXs, y \in EventYs : on_release(<<x, y>>)
    \/ on_escape
    \/ on_right_click
    \/ \E saveOk \in BOOLEAN : SelectFinish(saveOk)

SelectInit == SelIdle /\ PlaceIdle /\ RevIdle /\ PinIdle /\ CapIdle /\ ExtIdle

SpecSelect == SelectInit /\ [][SelNext]_vars

(***************************************************************************)
(* Properties of the selection session                                     *)
(***************************************************************************)
\* the session was ended by a release that followed a press, no cancel event
EndedByRelease ==
    /\ selPc = "returned"
    /\ lastPress # None
    /\ releasePt # None
    /\ ~cancelEv

\* the rect the claim expects from the most recent press and the release
ExpectedRect ==
    <<Min(lastPress[1], releasePt[1]), Min(lastPress[2], releasePt[2]),
      Abs(releasePt[1] - lastPress[1]), Abs(releasePt[2] - lastPress[2])>>

BigEnough ==
    /\ Abs(releasePt[1] - lastPress[1]) >= 5
    /\ Abs(releasePt[2] - lastPress[2]) >= 5

\* C1 as stated: a session ended by a release at least 5 px away from the most
\* recent press in both axes, with no cancel event, returns a result whose rect
\* is (min x, min y, |dx|, |dy|).
C1_AsStated ==
    (EndedByRelease /\ BigEnough)
        => (self_result # None /\ self_result[1].rect = ExpectedRect)

\* C1 amended: the same, provided the crop/save of the region did not raise;
\* when it raised, select() returns None.
C1_RectOfLastPress ==
    (EndedByRelease /\ BigEnough)
        => IF saveError
           THEN self_result = None
           ELSE self_result # None /\ self_result[1].rect = ExpectedRect

\* a big-enough drag towards the top-left (so min() picks the release point)
\* has returned its result
C1_Witness ==
    /\ EndedByRelease /\ BigEnough
    /\ releasePt[1] < lastPress[1] /\ releasePt[2] < lastPress[2]
    /\ self_result # None

\* C2: a session whose final rectangle is narrower or lower than 5 px returns
\* None, wherever the press and the release happened.
C2_UndersizedIsCancelled ==
    (selPc = "returned" /\ lastPress # None /\ releasePt # None
        /\ ~BigEnough)
        => self_result = None

\* a drag wide enough but not high enough, ended by its release, returned None
C2_Witness ==
    /\ EndedByRelease /\ selection.done /\ ~saveError
    /\ Abs(releasePt[1] - lastPress[1]) >= 5
    /\ Abs(releasePt[2] - lastPress[2]) < 5
    /\ self_result = None

\* C3: once an Escape or right-click was delivered, the session is marked
\* cancelled, its window is gone (the loop has ended) and the result is None,
\* in that state and in every later one.
C3_CancelEndsSession ==
    cancelEv => /\ selection.cancelled
                /\ overlay_root = "destroyed"
                /\ self_result = None

\* a cancel arrived mid-drag over a rectangle that was already big enough,
\* and select() has returned
C3_Witness ==
    /\ cancelEv /\ selPc = "returned"
    /\ selection.start # None /\ selection.end # None
    /\ ~TooSmall(SelectionBounds(selection)[3], SelectionBounds(selection)[4])
    /\ self_result = None

\* C4 as stated: every returned SelectionResult has positive width and height
\* and lies inside [0, 0, screen_width, screen_height].
C4_ResultInsideScreen ==
    self_result # None =>
        LET r == self_result[1].rect
        IN  /\ r[3] > 0 /\ r[4] > 0
            /\ 0 <= r[1] /\ 0 <= r[2]
            /\ r[1] + r[3] <= self_result[1].screen_width
            /\ r[2] + r[4] <= self_result[1].screen_height

(***************************************************************************)
(* ResultPanel.calculate_position                                          *)
(***************************************************************************)
\* first fit with the left test forgetting the panel width in the returned x
calculate_position_overlap(selection_rect, panel, bounds) ==
    LET sx == selection_rect[1]
        sy == selection_rect[2]
        sw == selection_rect[3]
        sh == selection_rect[4]
        pw == panel[1]
        ph == panel[2]
        scr_w == bounds[1]
        scr_h == bounds[2]
    IN  IF sx + sw + GAP + pw <= scr_w THEN <<sx + sw + GAP, sy>>
        ELSE IF sx - GAP - pw >= 0 THEN <<sx - GAP, sy>>
        ELSE IF sy + sh + GAP + ph <= scr_h THEN <<sx, sy + sh + GAP>>
        ELSE IF sy - GAP - ph >= 0 THEN <<sx, sy - GAP - ph>>
        ELSE <<scr_w - pw - GAP, sy>>

\* first fit in the order right, below, left, above
calculate_position_order(selection_rect, panel, bounds) ==
    LET sx == selection_rect[1]
        sy == selection_rect[2]
        sw == selection_rect[3]
        sh == selection_rect[4]
        pw == panel[1]
        ph == panel[2]
        scr_w == bounds[1]
        scr_h == bounds[2]
    IN  IF sx + sw + GAP + pw <= scr_w THEN <<sx + sw + GAP, sy>>
        ELSE IF sy + sh + GAP + ph <= scr_h THEN <<sx, sy + sh + GAP>>
        ELSE IF sx - GAP - pw >= 0 THEN <<sx - GAP - pw, sy>>
        ELSE IF sy - GAP - ph >= 0 THEN <<sx, sy - GAP - ph>>
        ELSE <<scr_w - pw - GAP, sy>>

\* the fallback flush with the right edge of the screen
calculate_position_flush(selection_rect, panel, bounds) ==
    LET sx == selection_rect[1]
        sy == selection_rect[2]
        sw == selection_rect[3]
        sh == selection_rect[4]
        pw == panel[1]
        ph == panel[2]
        scr_w == bounds[1]
        scr_h == bounds[2]
    IN  IF sx + sw + GAP + pw <= scr_w THEN <<sx + sw + GAP, sy>>
        ELSE IF sx - GAP - pw >= 0 THEN <<sx - GAP - pw, sy>>
        ELSE IF sy + sh + GAP + ph <= scr_h THEN <<sx, sy + sh + GAP>>
        ELSE IF sy - GAP - ph >= 0 THEN <<sx, sy - GAP - ph>>
        ELSE <<scr_w - pw, sy>>

calculate_position(selection_rect, panel, bounds) ==
    LET sx == selection_rect[1]
        sy == selection_rect[2]
        sw == selection_rect[3]
        sh == selection_rect[4]
        pw == panel[1]
        ph == panel[2]
        scr_w == bounds[1]
        scr_h == bounds[2]
    IN  IF sx + sw + GAP + pw <= scr_w THEN <<sx + sw + GAP, sy>>
        ELSE IF sx - GAP - pw >= 0 THEN <<sx - GAP - pw, sy>>
        ELSE IF sy + sh + GAP + ph <= scr_h THEN <<sx, sy + sh + GAP>>
        ELSE IF sy - GAP - ph >= 0 THEN <<sx, sy - GAP - ph>>
        ELSE <<scr_w - pw - GAP, sy>>

\* inputs of the placement: screens, panels and selections that make every
\* branch happen, the two scenarios of the specification among them
PlaceScreens == {<<800, 600>>, <<400, 300>>}
PlacePanels == {<<350, 150>>, <<350, 200>>, <<400, 300>>}
PlaceXs == {0, 100, 300, 600}
PlaceYs == {0, 100, 400, 500}
PlaceWidths == {100, 300, 500}
PlaceHeights == {100, 200, 450}
PlaceRects == {<<x, y, w, h>> : x \in PlaceXs, y \in PlaceYs,
                               w \in PlaceWidths, h \in PlaceHeights}

PlaceInit ==
    /\ SelIdle
    /\ RevIdle
    /\ PinIdle
    /\ ExtIdle
    /\ CapIdle
    /\ rect \in PlaceRects
    /\ panel_size \in PlacePanels
    /\ screen_bounds \in PlaceScreens
    /\ position = None

\* panel.calculate_position(selection_rect, panel_size, screen_bounds)
CalculatePosition ==
    /\ position = None
    /\ position' = calculate_position(rect, panel_size, screen_bounds)
    /\ UNCHANGED <<rect, panel_size, screen_bounds>>
    /\ UNCHANGED nonPlaceVars

PlaceNext == CalculatePosition

SpecPlace == PlaceInit /\ [][PlaceNext]_vars

(***************************************************************************)
(* Properties of the placement                                             *)
(***************************************************************************)
\* the four fit tests of the claims, written out on the inputs
FitsRight == rect[1] + rect[3] + 10 + panel_size[1] <= screen_bounds[1]
FitsLeft == rect[1] - 10 - panel_size[1] >= 0
FitsBelow == rect[2] + rect[4] + 10 + panel_size[2] <= screen_bounds[2]
FitsAbove == rect[2] - 10 - panel_size[2] >= 0
AnyFits == FitsRight \/ FitsLeft \/ FitsBelow \/ FitsAbove

\* C5: first fit in the order right, left, below, above with a 10 px gap, and
\* the two scenarios on the 800x600 screen.
C5_FirstFit ==
    position # None =>
        /\ FitsRight => position = <<rect[1] + rect[3] + 10, rect[2]>>
        /\ (~FitsRight /\ FitsLeft)
              => position = <<rect[1] - 10 - panel_size[1], rect[2]>>
        /\ (~FitsRight /\ ~FitsLeft /\ FitsBelow)
              => position = <<rect[1], rect[2] + rect[4] + 10>>
        /\ (~FitsRight /\ ~FitsLeft /\ ~FitsBelow /\ FitsAbove)
              => position = <<rect[1], rect[2] - 10 - panel_size[2]>>
        /\ (rect = <<100, 100, 300, 200>> /\ panel_size = <<350, 150>>
              /\ screen_bounds = <<800, 600>>) => position = <<410, 100>>
        /\ (rect = <<600, 100, 300, 200>> /\ panel_size = <<350, 150>>
              /\ screen_bounds = <<800, 600>>) => position = <<240, 100>>

\* the second scenario has been computed: left of the selection
C5_Witness ==
    /\ rect = <<600, 100, 300, 200>> /\ panel_size = <<350, 150>>
    /\ screen_bounds = <<800, 600>>
    /\ position = <<240, 100>>

\* the panel [x, x+pw) x [y, y+ph) and the selection share a point
Overlaps ==
    /\ position[1] < rect[1] + rect[3] /\ rect[1] < position[1] + panel_size[1]
    /\ position[2] < rect[2] + rect[4] /\ rect[2] < position[2] + panel_size[2]

\* C6: with positive sizes, the panel overlaps the selection only when none
\* of the four directional placements fits.
C6_NoOverlapUnlessFallback ==
    (position # None /\ rect[3] > 0 /\ rect[4] > 0
        /\ panel_size[1] > 0 /\ panel_size[2] > 0 /\ AnyFits)
        => ~Overlaps

\* a placement left of the selection, clear of it
C6_Witness ==
    /\ position # None /\ ~FitsRight /\ FitsLeft
    /\ position[1] + panel_size[1] <= rect[1]
    /\ ~Overlaps

RectInsideScreen ==
    /\ 0 <= rect[1] /\ 0 <= rect[2]
    /\ rect[1] + rect[3] <= screen_bounds[1]
    /\ rect[2] + rect[4] <= screen_bounds[2]

\* C7 as stated: for a selection inside the screen, a directional placement
\* keeps the whole panel on the screen.
C7_PanelOnScreen ==
    (position # None /\ RectInsideScreen /\ AnyFits)
        => /\ 0 <= position[1]
           /\ position[1] + panel_size[1] <= screen_bounds[1]
           /\ 0 <= position[2]
           /\ position[2] + panel_size[2] <= screen_bounds[2]

\* C8 as stated: the fallback keeps the selection's top and puts the panel's
\* right edge on the screen's right edge.
C8_AsStated ==
    (position # None /\ ~AnyFits)
        => /\ position[2] = rect[2]
           /\ position[1] + panel_size[1] = screen_bounds[1]
           /\ panel_size[1] <= screen_bounds[1] => position[1] >= 0

\* C8 amended: the fallback keeps the selection's top and puts the panel's
\* right edge 10 px (the gap) inside the screen's right edge; x >= 0 whenever
\* pw + 10 <= screen width.
C8_FallbackGapFromRightEdge ==
    (position # None /\ ~AnyFits)
        => /\ position[2] = rect[2]
           /\ position[1] + panel_size[1] = screen_bounds[1] - 10
           /\ panel_size[1] + 10 <= screen_bounds[1] => position[1] >= 0

\* the fallback was taken for a panel narrower than the screen
C8_Witness ==
    /\ position # None /\ ~AnyFits
    /\ panel_size[1] + 10 <= screen_bounds[1]
    /\ position = <<screen_bounds[1] - 10 - panel_size[1], rect[2]>>

(***************************************************************************)
(* Strings are sequences of characters.  format_result (core/ocr.py)       *)
(***************************************************************************)
Whitespace == {" ", "\n", "\t"}

RECURSIVE lstrip(_)
lstrip(str) ==
    IF str # <<>> /\ Head(str) \in Whitespace THEN lstrip(Tail(str)) ELSE str

RECURSIVE rstrip(_)
rstrip(str) ==
    IF str # <<>> /\ str[Len(str)] \in Whitespace
    THEN rstrip(SubSeq(str, 1, Len(str) - 1))
    ELSE str

strip(str) == rstrip(lstrip(str))

\* sep.join(parts)
RECURSIVE join(_, _)
join(sep, parts) ==
    IF parts = <<>> THEN <<>>
    ELSE IF Len(parts) = 1 THEN parts[1]
    ELSE parts[1] \o sep \o join(sep, Tail(parts))

\* the literal "\n[LaTeX]: "
LatexLabel == <<"\n", "[", "L", "a", "T", "e", "X", "]", ":", " ">>

\* format_result that tests latex against None instead of for truth
format_result_not_none(txt, ltx) ==
    LET result_parts ==
            (IF txt # <<>> THEN <<txt>> ELSE <<>>)
         \o (IF ltx # None THEN <<LatexLabel \o ltx[1]>> ELSE <<>>)
    IN  strip(join(<<"\n">>, result_parts))

\* format_result(text, latex): the non-empty parts joined by a newline, stripped
format_result(txt, ltx) ==
    LET result_parts ==
            (IF txt # <<>> THEN <<txt>> ELSE <<>>)
         \o (IF ltx # None /\ ltx[1] # <<>> THEN <<LatexLabel \o ltx[1]>> ELSE <<>>)
    IN  strip(join(<<"\n">>, result_parts))

(***************************************************************************)
(* PinnedWindow (ui/pinned_window.py), as far as the review session        *)
(* creates and uses it                                                     *)
(***************************************************************************)
DEFAULT_WIDTH == 300
DEFAULT_HEIGHT == 200
MIN_WIDTH == 100
MIN_HEIGHT == 80

\* the display size computed by show() for an image of img_width x img_height
DisplaySize(img_width, img_height) ==
    LET scaled ==
            IF img_width > DEFAULT_WIDTH
            THEN <<DEFAULT_WIDTH, (DEFAULT_WIDTH * img_height) \div img_width>>
            ELSE IF img_height > DEFAULT_HEIGHT
            THEN <<(DEFAULT_HEIGHT * img_width) \div img_height, DEFAULT_HEIGHT>>
            ELSE <<Min(img_width, DEFAULT_WIDTH), Min(img_height, DEFAULT_HEIGHT)>>
    IN  <<Max(MIN_WIDTH, scaled[1]), Max(MIN_HEIGHT, scaled[2])>>

\* PinnedWindow().show(image, text, latex, x, y, on_copy): the new instance
PinnedShow(image_size, txt, ltx, x, y, on_copy) ==
    [window |-> "open",
     image_size |-> image_size,
     text |-> txt,
     latex |-> ltx,
     on_copy |-> on_copy,
     drag_start |-> None,
     size |-> DisplaySize(image_size[1], image_size[2]),
     x |-> x,
     y |-> y]

\* root.destroy(): the Toplevel windows created under the root go with it;
\* the PinnedWindow objects keep their (now dead) _window reference
DestroyChildren(objs) ==
    [i \in DOMAIN objs |->
        IF objs[i].window = "open" THEN [objs[i] EXCEPT !.window = "destroyed"]
        ELSE objs[i]]

\* is_visible(): self._window is not None and self._window.winfo_exists()
is_visible(o) == o.window = "open"

\* get_all_windows(): the registered instances that are visible
get_all_windows == SelectSeq(pinned_windows, LAMBDA i : is_visible(pinned_objs[i]))

(***************************************************************************)
(* SnapOCR._show_result_ui                                                 *)
(***************************************************************************)
\* bounds of the review session
MaxPins == 2
MaxCopies == 2

panel_width == 350
panel_height == 200

\* recognized (text, latex) pairs with a non-empty formatted result
ReviewTexts == {<< <<"a">>, None >>,
                << <<"a">>, Some(<<"x">>) >>,
                << <<>>, Some(<<"x">>) >>}

ReviewInit ==
    /\ SelIdle
    /\ PinIdle
    /\ ExtIdle
    /\ CapIdle
    /\ rect \in PlaceRects
    /\ screen_bounds \in PlaceScreens
    /\ panel_size = <<panel_width, panel_height>>
    /\ position = None
    /\ revPc = "idle"
    /\ review_root = "none"
    /\ \E tl \in ReviewTexts :
          /\ text = tl[1]
          /\ latex = tl[2]
          /\ result = format_result(tl[1], tl[2])
    /\ final_result = None
    /\ returned = None
    /\ clipboard_calls = <<>>
    /\ clipboard = None
    /\ pinned_objs = <<>>
    /\ pinned_windows = <<>>
    /\ review_events = <<>>

\* the window position computed inline by _show_result_ui
ShowResultPosition(r, bounds) ==
    LET sx == r[1]
        sy == r[2]
        sw == r[3]
        sh == r[4]
        screen_w == bounds[1]
    IN  IF sx + sw + GAP + panel_width <= screen_w THEN <<sx + sw + GAP, sy>>
        ELSE IF sx - GAP - panel_width >= 0 THEN <<sx - GAP - panel_width, sy>>
        ELSE <<sx, sy + sh + GAP>>

\* _show_result_ui up to root.mainloop(): create and place the window; called
\* on its own or by capture_with_ui
ShowResultUI(ui) ==
    /\ revPc = "idle"
    /\ capPc \in {"none", "review"}
    /\ revPc' = IF ui = "ok" THEN "loop" ELSE "raised"
    /\ review_root' = CASE ui = "ok" -> "alive"
                        [] ui = "no_window" -> "none"
                        [] OTHER -> "partial"
    /\ position' = IF ui = "ok" THEN ShowResultPosition(rect, screen_bounds)
                   ELSE position
    /\ final_result' = None
    /\ UNCHANGED <<rect, panel_size, screen_bounds, text, latex, result, returned,
                   clipboard_calls, clipboard, pinned_objs, pinned_windows,
                   review_events>>
    /\ UNCHANGED nonRevVars

\* on_pin(): create a floating window; the review window stays
on_pin ==
    /\ review_root = "alive"
    /\ Len(pinned_objs) < MaxPins
    /\ pinned_objs' = Append(pinned_objs,
            PinnedShow(<<rect[3], rect[4]>>, text, latex,
                       position[1] + 50, position[2] + 50, "copy_result"))
    /\ pinned_windows' = Append(pinned_windows, Len(pinned_objs) + 1)
    /\ review_events' = Append(review_events, "Pin")
    /\ UNCHANGED <<revPc, review_root, text, latex, result, final_result, returned,
                   clipboard_calls, clipboard, placeVars>>
    /\ UNCHANGED nonRevVars

\* on_accept() that leaves the window open
on_accept_stays(copyOk) ==
    /\ review_root = "alive"
    /\ clipboard_calls' = Append(clipboard_calls, result)
    /\ clipboard' = IF copyOk THEN Some(result) ELSE clipboard
    /\ final_result' = Some(result)
    /\ review_events' = Append(review_events, "Accept")
    /\ UNCHANGED <<revPc, review_root, pinned_objs, text, latex, result, returned,
                   pinned_windows, placeVars>>
    /\ UNCHANGED nonRevVars

\* on_accept() that forgets to record the result
on_accept_forgets(copyOk) ==
    /\ review_root = "alive"
    /\ clipboard_calls' = Append(clipboard_calls, result)
    /\ clipboard' = IF copyOk THEN Some(result) ELSE clipboard
    /\ review_root' = "destroyed"
    /\ pinned_objs' = DestroyChildren(pinned_objs)
    /\ review_events' = Append(review_events, "Accept")
    /\ UNCHANGED <<revPc, text, latex, result, final_result, returned,
                   pinned_windows, placeVars>>
    /\ UNCHANGED nonRevVars

\* on_accept(): copy the result, record it, destroy the window
on_accept(copyOk) ==
    /\ review_root = "alive"
    /\ clipboard_calls' = Append(clipboard_calls, result)
    /\ clipboard' = IF copyOk THEN Some(result) ELSE clipboard
    /\ final_result' = Some(result)
    /\ review_root' = "destroyed"
    /\ pinned_objs' = DestroyChildren(pinned_objs)
    /\ review_events' = Append(review_events, "Accept")
    /\ UNCHANGED <<revPc, text, latex, result, returned, pinned_windows, placeVars>>
    /\ UNCHANGED nonRevVars

\* on_cancel() that hands the result back
on_cancel_returns_result ==
    /\ review_root = "alive"
    /\ review_root' = "destroyed"
    /\ final_result' = Some(result)
    /\ pinned_objs' = DestroyChildren(pinned_objs)
    /\ review_events' = Append(review_events, "Cancel")
    /\ UNCHANGED <<revPc, text, latex, result, returned,
                   clipboard_calls, clipboard, pinned_windows, placeVars>>
    /\ UNCHANGED nonRevVars

\* on_cancel(): destroy the window
on_cancel ==
    /\ review_root = "alive"
    /\ review_root' = "destroyed"
    /\ pinned_objs' = DestroyChildren(pinned_objs)
    /\ review_events' = Append(review_events, "Cancel")
    /\ UNCHANGED <<revPc, text, latex, result, final_result, returned,
                   clipboard_calls, clipboard, pinned_windows, placeVars>>
    /\ UNCHANGED nonRevVars

\* root.bind('<Escape>', lambda e: on_cancel())
on_review_escape ==
    /\ review_root = "alive"
    /\ review_root' = "destroyed"
    /\ pinned_objs' = DestroyChildren(pinned_objs)
    /\ review_events' = Append(review_events, "Escape")
    /\ UNCHANGED <<revPc, text, latex, result, final_result, returned,
                   clipboard_calls, clipboard, pinned_windows, placeVars>>
    /\ UNCHANGED nonRevVars

\* PinnedWindow._copy_text() of instance i, from its context menu
copy_text(i, copyOk) ==
    /\ i \in DOMAIN pinned_objs
    /\ pinned_objs[i].window = "open"
    /\ Len(clipboard_calls) < MaxCopies
    /\ IF pinned_objs[i].on_copy = "copy_result"
       THEN /\ clipboard_calls' = Append(clipboard_calls, result)
            /\ clipboard' = IF copyOk THEN Some(result) ELSE clipboard
       ELSE /\ copyOk
            /\ clipboard' = IF pinned_objs[i].text # <<>>
                            THEN Some(pinned_objs[i].text) ELSE clipboard
            /\ UNCHANGED clipboard_calls
    /\ review_events' = Append(review_events, "CopyText")
    /\ UNCHANGED <<revPc, review_root, text, latex, result, final_result, returned,
                   pinned_objs, pinned_windows, placeVars>>
    /\ UNCHANGED nonRevVars

\* _show_result_ui after root.mainloop(): return final_result[0]
ShowResultReturn ==
    /\ revPc = "loop"
    /\ review_root = "destroyed"
    /\ revPc' = "returned"
    /\ returned' = final_result
    /\ UNCHANGED <<review_root, text, latex, result, final_result,
                   clipboard_calls, clipboard, pinned_objs, pinned_windows,
                   review_events, placeVars>>
    /\ UNCHANGED nonRevVars

ReviewNext ==
    \/ \E ui \in UiOutcomes : ShowResultUI(ui)
    \/ on_pin
    \/ \E copyOk \in BOOLEAN : on_accept(copyOk)
    \/ on_cancel
    \/ on_review_escape
    \/ \E i \in 1..MaxPins, copyOk \in BOOLEAN : copy_text(i, copyOk)
    \/ ShowResultReturn

SpecReview == ReviewInit /\ [][ReviewNext]_vars

(***************************************************************************)
(* Properties of the review session                                        *)
(***************************************************************************)
\* the user decisions among the handled events (a menu copy is no decision)
DecisionIdx == {i \in DOMAIN review_events : review_events[i] # "CopyText"}
TerminalIdx == {i \in DOMAIN review_events :
                    review_events[i] \in {"Accept", "Cancel", "Escape"}}
CountOf(e) == Cardinality({i \in DOMAIN review_events : review_events[i] = e})

C10_AcceptCopiesOnce ==
    /\ revPc = "returned" =>
          /\ (returned = Some(result)) <=> (CountOf("Accept") = 1)
          /\ (CountOf("Accept") = 0) => returned = None
    /\ Len(clipboard_calls) = CountOf("Accept") + CountOf("CopyText")
    /\ \A i \in DOMAIN clipboard_calls : clipboard_calls[i] = result
    /\ CountOf("Accept") <= 1

\* a session ended by Accept returned the text after a single copy of it
C10_Witness ==
    /\ revPc = "returned"
    /\ review_events = <<"Accept">>
    /\ returned = Some(result)
    /\ clipboard_calls = <<result>>

\* a session ended by Escape returned None and left the clipboard alone
C10_WitnessEscape ==
    /\ revPc = "returned"
    /\ review_events = <<"Escape">>
    /\ returned = None
    /\ clipboard_calls = <<>> /\ clipboard = None

\* the instances get_all_windows() lists
OpenRegistered == {get_all_windows[k] : k \in DOMAIN get_all_windows}

\* C11: ending a review session (Accept, Cancel or Escape destroyed its root
\* window) leaves every pinned window made by Pin in that session open and
\* listed by the registry.
C11_PinsSurviveSessionEnd ==
    review_root = "destroyed" =>
        \A i \in DOMAIN pinned_objs :
            /\ pinned_objs[i].window = "open"
            /\ i \in OpenRegistered

(***************************************************************************)
(* PinnedWindow used on its own: construction, show, drag, copy, close     *)
(* (ui/pinned_window.py), under a Tk root that stays alive                 *)
(***************************************************************************)
\* bounds of the PinnedWindow specification
MaxOps == 4

\* winfo_screenwidth() x winfo_screenheight() of the display
PinScreen == <<800, 600>>

\* root pointer positions (event.x_root, event.y_root) of the drag events
DragPoints == {<<0, 0>>, <<3, 1>>}

\* the arguments of the show() calls: image size, text, latex, position, on_copy
ShowArgs ==
    {[image_size |-> <<400, 400>>, text |-> <<"a">>, latex |-> None,
      pos |-> None, on_copy |-> "none"],
     [image_size |-> <<50, 40>>, text |-> <<>>, latex |-> Some(<<"x">>),
      pos |-> Some(<<10, 20>>), on_copy |-> "none"],
     [image_size |-> <<200, 500>>, text |-> <<"a">>, latex |-> Some(<<"x">>),
      pos |-> Some(<<10, 20>>), on_copy |-> "copy_result"]}

\* PinnedWindow.__init__: no window yet
PinnedNew ==
    [window |-> "none",
     image_size |-> <<0, 0>>,
     text |-> <<>>,
     latex |-> None,
     on_copy |-> "none",
     drag_start |-> None,
     size |-> <<0, 0>>,
     x |-> 0,
     y |-> 0]

\* the position show() gives the window: the one passed, or the screen centre
ShowPosition(pos, size) ==
    IF pos = None
    THEN <<(PinScreen[1] - size[1]) \div 2, (PinScreen[2] - size[2]) \div 2>>
    ELSE pos[1]

\* list.remove(v): drop the first occurrence of v
RECURSIVE RemoveFirst(_, _)
RemoveFirst(seq, v) ==
    IF seq = <<>> THEN <<>>
    ELSE IF Head(seq) = v THEN Tail(seq)
    ELSE <<Head(seq)>> \o RemoveFirst(Tail(seq), v)

\* one instance after close()
Closed(o) == [o EXCEPT !.window = "none"]

PinnedInit ==
    /\ SelIdle
    /\ PlaceIdle
    /\ RevIdle
    /\ PinIdle
    /\ ExtIdle
    /\ CapIdle

\* PinnedWindow(): construct an instance
new ==
    /\ Len(pinned_objs) < MaxInstances
    /\ pinned_objs' = Append(pinned_objs, PinnedNew)
    /\ last_op' = <<"new", Len(pinned_objs) + 1>>
    /\ prev_op' = last_op
    /\ UNCHANGED <<pinned_windows, clipboard_calls, clipboard, orphans,
                   drag_origin, ops>>
    /\ UNCHANGED nonPinVars

\* show() that does not track the window
show_untracked(i, a) ==
    /\ i \in DOMAIN pinned_objs
    /\ ops < MaxOps
    /\ LET old == pinned_objs[i]
           p == ShowPosition(a.pos, DisplaySize(a.image_size[1], a.image_size[2]))
           shown == PinnedShow(a.image_size, a.text, a.latex, p[1], p[2], a.on_copy)
       IN  /\ pinned_objs' = [pinned_objs EXCEPT
                                 ![i] = [shown EXCEPT !.drag_start = old.drag_start]]
           /\ orphans' = IF old.window = "open" THEN orphans + 1 ELSE orphans
    /\ UNCHANGED pinned_windows
    /\ drag_origin' = [drag_origin EXCEPT ![i] = None]
    /\ ops' = ops + 1
    /\ last_op' = <<"show", i>>
    /\ prev_op' = last_op
    /\ UNCHANGED <<clipboard_calls, clipboard>>
    /\ UNCHANGED nonPinVars

\* show(image, text, latex, x, y, on_copy) on instance i: a new Toplevel replaces
\* self._window (a window it still held stays on screen, unreferenced), and
\* the instance is appended to the registry
show(i, a) ==
    /\ i \in DOMAIN pinned_objs
    /\ ops < MaxOps
    /\ LET old == pinned_objs[i]
           p == ShowPosition(a.pos, DisplaySize(a.image_size[1], a.image_size[2]))
           shown == PinnedShow(a.image_size, a.text, a.latex, p[1], p[2], a.on_copy)
       IN  /\ pinned_objs' = [pinned_objs EXCEPT
                                 ![i] = [shown EXCEPT !.drag_start = old.drag_start]]
           /\ orphans' = IF old.window = "open" THEN orphans + 1 ELSE orphans
    /\ pinned_windows' = Append(pinned_windows, i)
    /\ drag_origin' = [drag_origin EXCEPT ![i] = None]
    /\ ops' = ops + 1
    /\ last_op' = <<"show", i>>
    /\ prev_op' = last_op
    /\ UNCHANGED <<clipboard_calls, clipboard>>
    /\ UNCHANGED nonPinVars

\* _on_drag_start(event): <ButtonPress-1> on the title bar, title or image
on_drag_start(i, p) ==
    /\ i \in DOMAIN pinned_objs
    /\ pinned_objs[i].window = "open"
    /\ pinned_objs' = [pinned_objs EXCEPT ![i].drag_start = Some(p)]
    /\ drag_origin' = [drag_origin EXCEPT
                          ![i] = Some(<<p, <<pinned_objs[i].x, pinned_objs[i].y>> >>)]
    /\ ops < MaxOps
    /\ ops' = ops + 1
    /\ last_op' = <<"press", i>>
    /\ prev_op' = last_op
    /\ UNCHANGED <<pinned_windows, clipboard_calls, clipboard, orphans>>
    /\ UNCHANGED nonPinVars

\* _on_drag_motion(event) that keeps the press position as its reference
on_drag_motion_from_press(i, p) ==
    /\ i \in DOMAIN pinned_objs
    /\ pinned_objs[i].window = "open"
    /\ ops < MaxOps
    /\ LET o == pinned_objs[i]
       IN  IF o.drag_start # None
           THEN LET dx == p[1] - o.drag_start[1][1]
                    dy == p[2] - o.drag_start[1][2]
                IN  pinned_objs' = [pinned_objs EXCEPT
                        ![i] = [o EXCEPT !.x = o.x + dx, !.y = o.y + dy]]
           ELSE UNCHANGED pinned_objs
    /\ ops' = ops + 1
    /\ last_op' = <<"motion", i>>
    /\ prev_op' = last_op
    /\ UNCHANGED <<pinned_windows, clipboard_calls, clipboard, orphans,
                   drag_origin>>
    /\ UNCHANGED nonPinVars

\* _on_drag_motion(event): <B1-Motion>; move by the pointer's delta since the
\* previous drag event, then remember this event's position
on_drag_motion(i, p) ==
    /\ i \in DOMAIN pinned_objs
    /\ pinned_objs[i].window = "open"
    /\ ops < MaxOps
    /\ LET o == pinned_objs[i]
       IN  IF o.drag_start # None
           THEN LET dx == p[1] - o.drag_start[1][1]
                    dy == p[2] - o.drag_start[1][2]
                IN  pinned_objs' = [pinned_objs EXCEPT
                        ![i] = [o EXCEPT !.x = o.x + dx, !.y = o.y + dy,
                                         !.drag_start = Some(p)]]
           ELSE UNCHANGED pinned_objs
    /\ ops' = ops + 1
    /\ last_op' = <<"motion", i>>
    /\ prev_op' = last_op
    /\ UNCHANGED <<pinned_windows, clipboard_calls, clipboard, orphans,
                   drag_origin>>
    /\ UNCHANGED nonPinVars

\* _show_context_menu(event): <ButtonPress-3>; pop the menu up and release its
\* grab; the instance and the registry are not touched
show_context_menu(i) ==
    /\ i \in DOMAIN pinned_objs
    /\ pinned_objs[i].window = "open"
    /\ ops < MaxOps
    /\ ops' = ops + 1
    /\ last_op' = <<"menu", i>>
    /\ prev_op' = last_op
    /\ UNCHANGED <<pinned_objs, pinned_windows, clipboard_calls, clipboard, orphans,
                   drag_origin>>
    /\ UNCHANGED nonPinVars

\* _copy_text() from the context menu of instance i
pinned_copy_text(i, copyOk) ==
    /\ i \in DOMAIN pinned_objs
    /\ pinned_objs[i].window = "open"
    /\ LET o == pinned_objs[i]
       IN  IF o.on_copy # "none"
           THEN /\ Len(clipboard_calls) < MaxCopies
                /\ clipboard_calls' = Append(clipboard_calls, result)
                /\ clipboard' = IF copyOk THEN Some(result) ELSE clipboard
           ELSE /\ copyOk
                /\ clipboard' = IF o.text # <<>> THEN Some(o.text) ELSE clipboard
                /\ UNCHANGED clipboard_calls
    /\ ops < MaxOps
    /\ ops' = ops + 1
    /\ last_op' = <<"copy_text", i>>
    /\ prev_op' = last_op
    /\ UNCHANGED <<pinned_objs, pinned_windows, orphans, drag_origin>>
    /\ UNCHANGED nonPinVars

\* _copy_latex() from the context menu of instance i; the entry exists only
\* when show() was given a latex
copy_latex(i) ==
    /\ i \in DOMAIN pinned_objs
    /\ pinned_objs[i].window = "open"
    /\ pinned_objs[i].latex # None /\ pinned_objs[i].latex[1] # <<>>
    /\ clipboard' = Some(pinned_objs[i].latex[1])
    /\ ops < MaxOps
    /\ ops' = ops + 1
    /\ last_op' = <<"copy_latex", i>>
    /\ prev_op' = last_op
    /\ UNCHANGED <<pinned_objs, pinned_windows, clipboard_calls, orphans,
                   drag_origin>>
    /\ UNCHANGED nonPinVars

\* close() that drops the newest registry entry instead of its own
close_pops(i) ==
    /\ i \in DOMAIN pinned_objs
    /\ IF pinned_objs[i].window # "none"
       THEN /\ pinned_windows' = SubSeq(pinned_windows, 1, Len(pinned_windows) - 1)
            /\ pinned_objs' = [pinned_objs EXCEPT ![i] = Closed(pinned_objs[i])]
       ELSE UNCHANGED <<pinned_windows, pinned_objs>>
    /\ last_op' = <<"close", i>>
    /\ prev_op' = last_op
    /\ ops < MaxOps
    /\ ops' = ops + 1
    /\ UNCHANGED <<clipboard_calls, clipboard, orphans, drag_origin>>
    /\ UNCHANGED nonPinVars

\* close(): if self._window: leave the registry, destroy the window, forget it
close(i) ==
    /\ i \in DOMAIN pinned_objs
    /\ IF pinned_objs[i].window # "none"
       THEN /\ pinned_windows' = RemoveFirst(pinned_windows, i)
            /\ pinned_objs' = [pinned_objs EXCEPT ![i] = Closed(pinned_objs[i])]
       ELSE UNCHANGED <<pinned_windows, pinned_objs>>
    /\ last_op' = <<"close", i>>
    /\ prev_op' = last_op
    /\ ops < MaxOps
    /\ ops' = ops + 1
    /\ UNCHANGED <<clipboard_calls, clipboard, orphans, drag_origin>>
    /\ UNCHANGED nonPinVars

\* close_all() without the final clear()
close_all_no_clear ==
    /\ LET listed == {pinned_windows[k] : k \in DOMAIN pinned_windows}
           RECURSIVE Drop(_, _)
           Drop(seq, js) ==
               IF js = {} THEN seq
               ELSE LET j == CHOOSE j \in js : TRUE
                    IN  Drop(RemoveFirst(seq, j), js \ {j})
       IN  /\ pinned_objs' = [i \in DOMAIN pinned_objs |->
                                 IF i \in listed /\ pinned_objs[i].window # "none"
                                 THEN Closed(pinned_objs[i]) ELSE pinned_objs[i]]
           /\ pinned_windows' =
                  Drop(pinned_windows,
                       {i \in listed : pinned_objs[i].window # "none"})
    /\ last_op' = <<"close_all", 0>>
    /\ prev_op' = last_op
    /\ ops < MaxOps
    /\ ops' = ops + 1
    /\ UNCHANGED <<clipboard_calls, clipboard, orphans, drag_origin>>
    /\ UNCHANGED nonPinVars

\* close_all(): close() every listed instance, then clear the registry
close_all ==
    /\ LET listed == {pinned_windows[k] : k \in DOMAIN pinned_windows}
       IN  pinned_objs' = [i \in DOMAIN pinned_objs |->
                              IF i \in listed /\ pinned_objs[i].window # "none"
                              THEN Closed(pinned_objs[i]) ELSE pinned_objs[i]]
    /\ pinned_windows' = <<>>
    /\ last_op' = <<"close_all", 0>>
    /\ prev_op' = last_op
    /\ ops < MaxOps
    /\ ops' = ops + 1
    /\ UNCHANGED <<clipboard_calls, clipboard, orphans, drag_origin>>
    /\ UNCHANGED nonPinVars

PinnedNext ==
    \/ new
    \/ \E i \in 1..MaxInstances, a \in ShowArgs : show(i, a)
    \/ \E i \in 1..MaxInstances, p \in DragPoints : on_drag_start(i, p)
    \/ \E i \in 1..MaxInstances, p \in DragPoints : on_drag_motion(i, p)
    \/ \E i \in 1..MaxInstances : show_context_menu(i)
    \/ \E i \in 1..MaxInstances, copyOk \in BOOLEAN : pinned_copy_text(i, copyOk)
    \/ \E i \in 1..MaxInstances : copy_latex(i)
    \/ \E i \in 1..MaxInstances : close(i)
    \/ close_all

SpecPinned == PinnedInit /\ [][PinnedNext]_vars

(***************************************************************************)
(* Properties of the pinned-window registry                                *)
(***************************************************************************)
\* number of occurrences of v in seq
Count(seq, v) == Cardinality({k \in DOMAIN seq : seq[k] = v})

\* instance i has been shown at least once
WasShown(i) == i \in DOMAIN pinned_objs /\ pinned_objs[i].size # <<0, 0>>

\* C12: right after show() an instance is a member of get_all_windows(); right
\* after close() on it, it is not, whatever other pinned windows are open.
C12_RegistryRoundTrip ==
    \A i \in DOMAIN pinned_objs :
        /\ last_op = <<"show", i>> => i \in OpenRegistered
        /\ last_op = <<"close", i>> => i \notin OpenRegistered

\* instance 1 was shown and then closed while instance 2 is open and listed
C12_Witness ==
    /\ last_op = <<"close", 1>>
    /\ WasShown(1)
    /\ 1 \notin OpenRegistered
    /\ 2 \in OpenRegistered

\* C13: close() on an instance without a window changes nothing; close() on an
\* open one removes exactly one registry entry, its own; close_all() leaves
\* the registry empty, and a second close_all() in a row changes nothing.
C13_CloseIdempotent ==
    [][/\ \A i \in DOMAIN pinned_objs :
            /\ (last_op' = <<"close", i>> /\ ops' = ops + 1
                    /\ pinned_objs[i].window = "none")
                => UNCHANGED <<pinned_objs, pinned_windows, orphans>>
            /\ (last_op' = <<"close", i>> /\ ops' = ops + 1
                    /\ pinned_objs[i].window = "open")
                => /\ Count(pinned_windows', i) = Count(pinned_windows, i) - 1
                   /\ \A j \in DOMAIN pinned_objs \ {i} :
                          Count(pinned_windows', j) = Count(pinned_windows, j)
       /\ (last_op' = <<"close_all", 0>> /\ ops' = ops + 1)
            => pinned_windows' = <<>>
       /\ (last_op' = <<"close_all", 0>> /\ ops' = ops + 1
                /\ last_op = <<"close_all", 0>>)
            => UNCHANGED <<pinned_objs, pinned_windows, orphans>>
      ]_vars

\* instance 1 was shown, closed and closed again while instance 2 stays listed
C13_Witness ==
    /\ prev_op = <<"close", 1>>
    /\ last_op = <<"close", 1>>
    /\ WasShown(1)
    /\ pinned_windows = <<2>>

\* close_all() was called twice in a row after a window had been shown
C13_WitnessCloseAll ==
    /\ prev_op = <<"close_all", 0>>
    /\ last_op = <<"close_all", 0>>
    /\ WasShown(1)
    /\ pinned_windows = <<>>

\* C14: after close_all() no pinned window that was open remains on screen
\* and the registry is empty.
C14_CloseAllDestroysAll ==
    last_op = <<"close_all", 0>> =>
        /\ \A i \in DOMAIN pinned_objs : pinned_objs[i].window # "open"
        /\ orphans = 0
        /\ pinned_windows = <<>>

(***************************************************************************)
(* Properties of dragging and of the display size                          *)
(***************************************************************************)
\* C15: after a press at p0 on the current window and any motions since, the
\* window is at its position at press time plus (pn - p0), pn being the last
\* drag event's pointer position; a motion while no press was ever recorded
\* leaves the window where it is.
C15_DragFollowsPointer ==
    /\ [](\A i \in DOMAIN pinned_objs :
            (pinned_objs[i].window = "open" /\ drag_origin[i] # None) =>
                LET o == pinned_objs[i]
                    p0 == drag_origin[i][1][1]
                    pos0 == drag_origin[i][1][2]
                IN  /\ o.drag_start # None
                    /\ o.x = pos0[1] + (o.drag_start[1][1] - p0[1])
                    /\ o.y = pos0[2] + (o.drag_start[1][2] - p0[2]))
    /\ [][\A i \in DOMAIN pinned_objs :
            (last_op' = <<"motion", i>> /\ ops' = ops + 1
                    /\ pinned_objs[i].drag_start = None)
                => UNCHANGED pinned_objs]_vars

\* a press and two motions moved instance 1 away from where it was pressed
C15_Witness ==
    /\ prev_op = <<"motion", 1>>
    /\ last_op = <<"motion", 1>>
    /\ drag_origin[1] # None
    /\ pinned_objs[1].x # drag_origin[1][1][2][1]

\* a motion reached instance 1 although no press was ever recorded
C15_WitnessNoPress ==
    /\ last_op = <<"motion", 1>>
    /\ pinned_objs[1].window = "open"
    /\ pinned_objs[1].drag_start = None

\* C16: the display size of every shown window is within the default box and
\* not below the minimum: 100 <= width <= 300 and 80 <= height <= 200.
C16_DisplaySizeInBox ==
    \A i \in DOMAIN pinned_objs :
        pinned_objs[i].window = "open" =>
            /\ MIN_WIDTH <= pinned_objs[i].size[1]
            /\ pinned_objs[i].size[1] <= DEFAULT_WIDTH
            /\ MIN_HEIGHT <= pinned_objs[i].size[2]
            /\ pinned_objs[i].size[2] <= DEFAULT_HEIGHT

(***************************************************************************)
(* The capture flow: main(), SnapOCR.capture_and_extract and               *)
(* SnapOCR.capture_with_ui (main.py), with extract_text (core/ocr.py)      *)
(***************************************************************************)
\* run_once() and run_with_ui() call the capture functions with the default
show_result == TRUE

\* the selections handed to the review session: rect and screen size
CaptureRects == {<<100, 100, 300, 200>>, <<600, 400, 100, 100>>}
CaptureScreen == <<800, 600>>

\* raw outputs of the OCR call and of the math-markup model
OcrTexts == {<<>>, <<" ">>, <<"a">>}
LatexOutputs == {None, Some(<<>>), Some(<<" ">>), Some(<<"x">>)}

\* how extract_text can go: both calls succeed, the OCR call raises (caught,
\* text = ""), the math-markup call raises (caught, latex stays None), or
\* pytesseract is not importable (ImportError raised)
RecognitionOutcomes == {"ok", "ocr_raised", "latex_raised", "no_pytesseract"}

\* what select_region() can return: None (cancelled or failed), a
\* SelectionResult (macOS, Linux, SelectionOverlay) or a bare path string
\* (WindowsScreenshotCapture)
SelectOutcomes == {"None", "SelectionResult", "str"}

\* extract_text(image_path, ...): <<text, latex_result>> when it returns
extract_text(outcome, raw_text, raw_latex) ==
    LET txt == IF outcome = "ocr_raised" THEN <<>> ELSE strip(raw_text)
        ltx == IF outcome = "latex_raised" THEN None
               ELSE IF raw_latex # None /\ raw_latex[1] # <<>>
                    THEN Some(strip(raw_latex[1]))
                    ELSE raw_latex
    IN  <<txt, ltx>>

\* the finally block: remove the file if it exists; a failing os.remove is
\* swallowed and the file stays
Cleanup(exists, removeOk) == exists /\ ~removeOk

\* main(): if result is None: return 1, else return 0
ExitCode(res) == IF res = None THEN "1" ELSE "0"

CaptureInit ==
    /\ SelIdle
    /\ PlaceIdle
    /\ RevIdle
    /\ PinIdle
    /\ ExtIdle
    /\ capPc = "start"
    /\ mode \in {"plain", "ui"}
    /\ flow = "none"
    /\ select_out = "none"
    /\ temp_file = FALSE
    /\ temp_made = FALSE
    /\ recognition = "none"
    /\ messages = <<>>
    /\ cap_return = None
    /\ cap_raised = "none"
    /\ exit_code = "none"

\* main() up to the return of select_region(): run_with_ui() falls back to
\* capture_and_extract when tkinter or PIL cannot be imported; a None selection
\* returns None; a selection without an image_path attribute raises
CaptureSelect(uiAvail, out, r) ==
    /\ capPc = "start"
    /\ flow' = IF mode = "ui" /\ uiAvail THEN "capture_with_ui"
               ELSE "capture_and_extract"
    /\ select_out' = out
    /\ temp_made' = (out # "None")
    /\ temp_file' = (out # "None")
    /\ IF out = "None"
       THEN /\ capPc' = "finished"
            /\ UNCHANGED <<cap_raised, rect, screen_bounds>>
       ELSE IF out = "str"
       THEN /\ capPc' = "finished"
            /\ cap_raised' = "AttributeError"
            /\ UNCHANGED <<rect, screen_bounds>>
       ELSE /\ capPc' = "selected"
            /\ rect' = r
            /\ screen_bounds' = CaptureScreen
            /\ UNCHANGED cap_raised
    /\ UNCHANGED <<mode, recognition, messages, cap_return, exit_code,
                   panel_size, position>>
    /\ UNCHANGED <<selVars, revVars, pinVars, extVars>>

\* the try block up to the call of _show_result_ui, with the finally block on
\* the paths that leave the function here
CaptureExtract(outcome, raw_text, raw_latex, copyOk, dialogOk, removeOk) ==
    /\ capPc = "selected"
    /\ recognition' = outcome
    /\ IF outcome = "no_pytesseract"
       THEN /\ cap_raised' = "ImportError"
            /\ capPc' = "finished"
            /\ temp_file' = Cleanup(temp_file, removeOk)
            /\ UNCHANGED <<text, latex, result, messages, cap_return,
                           clipboard_calls, clipboard, panel_size>>
       ELSE LET tl == extract_text(outcome, raw_text, raw_latex)
                res == format_result(tl[1], tl[2])
            IN  /\ text' = tl[1]
                /\ latex' = tl[2]
                /\ result' = res
                /\ UNCHANGED cap_raised
                /\ IF res = <<>>
                   THEN /\ messages' =
                              messages
                              \o (IF show_result THEN <<"print_no_text">> ELSE <<>>)
                              \o (IF flow = "capture_with_ui" /\ dialogOk
                                  THEN <<"dialog_no_text">> ELSE <<>>)
                        /\ cap_return' = None
                        /\ capPc' = "finished"
                        /\ temp_file' = Cleanup(temp_file, removeOk)
                        /\ UNCHANGED <<clipboard_calls, clipboard, panel_size>>
                   ELSE IF flow = "capture_and_extract"
                   THEN /\ clipboard_calls' = Append(clipboard_calls, res)
                        /\ clipboard' = IF copyOk THEN Some(res) ELSE clipboard
                        /\ cap_return' = Some(res)
                        /\ capPc' = "finished"
                        /\ temp_file' = Cleanup(temp_file, removeOk)
                        /\ UNCHANGED <<messages, panel_size>>
                   ELSE /\ capPc' = "review"
                        /\ panel_size' = <<panel_width, panel_height>>
                        /\ UNCHANGED <<messages, cap_return, clipboard_calls,
                                       clipboard, temp_file>>
    /\ UNCHANGED <<mode, flow, select_out, temp_made, exit_code>>
    /\ UNCHANGED <<rect, screen_bounds, position>>
    /\ UNCHANGED <<revPc, review_root, final_result, returned, pinned_objs,
                   pinned_windows, review_events>>
    /\ UNCHANGED <<selVars, pinVars, extVars>>

\* capture_with_ui after _show_result_ui returned or raised: return
\* final_result or let the exception pass, after the finally block
CaptureReturn(removeOk) ==
    /\ capPc = "review"
    /\ revPc \in {"returned", "raised"}
    /\ IF revPc = "returned"
       THEN /\ cap_return' = returned
            /\ UNCHANGED cap_raised
       ELSE /\ cap_raised' = "TclError"
            /\ UNCHANGED cap_return
    /\ temp_file' = Cleanup(temp_file, removeOk)
    /\ capPc' = "finished"
    /\ UNCHANGED <<mode, flow, select_out, temp_made, recognition, messages,
                   exit_code>>
    /\ UNCHANGED <<selVars, placeVars, revVars, pinVars, extVars>>

\* main() after the capture function: exit code from the result; an exception
\* leaves main() without a return value
main_exit ==
    /\ capPc = "finished"
    /\ capPc' = "exited"
    /\ exit_code' = IF cap_raised # "none" THEN "uncaught" ELSE ExitCode(cap_return)
    /\ UNCHANGED <<mode, flow, select_out, temp_file, temp_made, recognition,
                   messages, cap_return, cap_raised>>
    /\ UNCHANGED <<selVars, placeVars, revVars, pinVars, extVars>>

CaptureNext ==
    \/ \E uiAvail \in BOOLEAN, out \in SelectOutcomes, r \in CaptureRects :
            CaptureSelect(uiAvail, out, r)
    \/ \E outcome \in RecognitionOutcomes, raw_text \in OcrTexts,
          raw_latex \in LatexOutputs, copyOk, dialogOk, removeOk \in BOOLEAN :
            CaptureExtract(outcome, raw_text, raw_latex, copyOk, dialogOk, removeOk)
    \/ \E ui \in UiOutcomes : ShowResultUI(ui)
    \/ on_pin
    \/ \E copyOk \in BOOLEAN : on_accept(copyOk)
    \/ on_cancel
    \/ on_review_escape
    \/ \E i \in 1..MaxPins, copyOk \in BOOLEAN : copy_text(i, copyOk)
    \/ ShowResultReturn
    \/ \E removeOk \in BOOLEAN : CaptureReturn(removeOk)
    \/ main_exit

SpecCapture == CaptureInit /\ [][CaptureNext]_vars

(***************************************************************************)
(* Properties of the capture flow                                          *)
(***************************************************************************)
\* extract_text returned (it did not raise)
Recognized == recognition \in {"ok", "ocr_raised", "latex_raised"}

\* recognition yielded empty text and no math markup
EmptyRecognition ==
    /\ Recognized
    /\ text = <<>>
    /\ (latex = None \/ latex[1] = <<>>)

Reported(m) == \E k \in DOMAIN messages : messages[k] = m

CaptureOver == capPc \in {"finished", "exited"}

Produced ==
    \/ flow = "capture_and_extract" /\ Recognized /\ result # <<>>
    \/ flow = "capture_with_ui" /\ CountOf("Accept") = 1

\* the selection was cancelled, or the review session ended without Accept
Cancelled ==
    \/ select_out = "None"
    \/ flow = "capture_with_ui" /\ revPc = "returned" /\ CountOf("Accept") = 0

\* recognition came back with nothing to show
EmptyResult == Recognized /\ result = <<>>

\* C18: main() returns 0 exactly when a result was produced, and 1 when the
\* session ended in cancellation or in empty recognition, in both modes.
C18_ExitCode ==
    capPc = "exited" =>
        /\ (exit_code = "0") <=> Produced
        /\ (Cancelled \/ EmptyResult) => exit_code = "1"

\* --ui: the review session was accepted and main() returned 0
C18_Witness ==
    /\ capPc = "exited"
    /\ mode = "ui"
    /\ flow = "capture_with_ui"
    /\ CountOf("Accept") = 1
    /\ exit_code = "0"

\* --ui: Pin, then Cancel: main() returned 1
C18_WitnessCancel ==
    /\ capPc = "exited"
    /\ flow = "capture_with_ui"
    /\ review_events = <<"Pin", "Cancel">>
    /\ exit_code = "1"

\* C19: once the capture function has finished, a temporary image file that
\* the selection produced no longer exists, on every path.
C19_TempFileRemoved ==
    (CaptureOver /\ temp_made) => ~temp_file

\* C20: a failure of the recognition step (OCR call or math-markup call
\* raising, or pytesseract unavailable) never leaves the capture function as
\* an exception: the flow ends in the 'no text detected' no-result outcome.
C20_RecognitionFailureRecovered ==
    (CaptureOver /\ recognition \in {"ocr_raised", "latex_raised", "no_pytesseract"}) =>
        /\ cap_raised = "none"
        /\ cap_return = None
        /\ Reported("print_no_text")

(***************************************************************************)
(* WindowsScreenshotCapture.select_region (platform/windows.py)            *)
(***************************************************************************)
\* _get_temp_path(): the file the region is saved to
WinTempPath == "snapocr_temp.png"

WinSelectInit ==
    /\ SelIdle
    /\ PlaceIdle
    /\ RevIdle
    /\ PinIdle
    /\ CapIdle
    /\ ExtIdle

\* select_region() up to root.mainloop(): imports, then the window is created
WinSelectBegin(importOk) ==
    /\ winPc = "idle"
    /\ IF importOk
       THEN /\ winPc' = "loop"
            /\ win_root' = "alive"
       ELSE /\ winPc' = "returned"
            /\ UNCHANGED win_root
    /\ UNCHANGED <<win_selection, win_canvas_rect, win_grab, win_event_seen,
                   win_result>>
    /\ UNCHANGED nonWinVars

\* on_press(event): selection['start'] = (event.x_root, event.y_root)
win_on_press(p) ==
    /\ win_root = "alive"
    /\ win_selection' = [win_selection EXCEPT !.start = Some(p)]
    /\ win_event_seen' = TRUE
    /\ UNCHANGED <<winPc, win_root, win_canvas_rect, win_grab, win_result>>
    /\ UNCHANGED nonWinVars

\* on_motion(event): redraw the rectangle from start to the pointer
win_on_motion(p) ==
    /\ win_root = "alive"
    /\ win_canvas_rect' =
           IF win_selection.start # None
           THEN Some(<<win_selection.start[1][1], win_selection.start[1][2],
                       p[1], p[2]>>)
           ELSE win_canvas_rect
    /\ win_event_seen' = TRUE
    /\ UNCHANGED <<winPc, win_root, win_selection, win_grab, win_result>>
    /\ UNCHANGED nonWinVars

\* on_release(event): record the end, mark done, destroy the window
win_on_release(p) ==
    /\ win_root = "alive"
    /\ win_selection' = [win_selection EXCEPT !.end = Some(p), !.done = TRUE]
    /\ win_root' = "destroyed"
    /\ win_event_seen' = TRUE
    /\ UNCHANGED <<winPc, win_canvas_rect, win_grab, win_result>>
    /\ UNCHANGED nonWinVars

\* on_escape(event): destroy the window
win_on_escape ==
    /\ win_root = "alive"
    /\ win_root' = "destroyed"
    /\ win_event_seen' = TRUE
    /\ UNCHANGED <<winPc, win_selection, win_canvas_rect, win_grab, win_result>>
    /\ UNCHANGED nonWinVars

\* select_region() after root.mainloop(): checks, then the region is captured
\* and saved; a failing capture returns None
WinSelectFinish(grabOk) ==
    /\ winPc = "loop"
    /\ win_root = "destroyed"
    /\ winPc' = "returned"
    /\ IF ~win_selection.done \/ win_selection.start = None
            \/ win_selection.end = None
       THEN UNCHANGED <<win_grab, win_result>>
       ELSE LET x1 == win_selection.start[1][1]
                y1 == win_selection.start[1][2]
                x2 == win_selection.end[1][1]
                y2 == win_selection.end[1][2]
                left == Min(x1, x2)
                top == Min(y1, y2)
                right == Max(x1, x2)
                bottom == Max(y1, y2)
            IN  IF right - left < 5 \/ bottom - top < 5
                THEN UNCHANGED <<win_grab, win_result>>
                ELSE /\ win_grab' = IF grabOk THEN "ok" ELSE "failed"
                     /\ win_result' = IF grabOk THEN Some(WinTempPath) ELSE None
    /\ UNCHANGED <<win_root, win_selection, win_canvas_rect, win_event_seen>>
    /\ UNCHANGED nonWinVars

WinSelectNext ==
    \/ \E importOk \in BOOLEAN : WinSelectBegin(importOk)
    \/ \E x \in EventXs, y \in EventYs : win_on_press(<<x, y>>)
    \/ \E x \in EventXs, y \in EventYs : win_on_motion(<<x, y>>)
    \/ \E x \in EventXs, y \in EventYs : win_on_release(<<x, y>>)
    \/ win_on_escape
    \/ \E grabOk \in BOOLEAN : WinSelectFinish(grabOk)

SpecWinSelect == WinSelectInit /\ [][WinSelectNext]_vars

\* C21: a failed screen capture aborts the selection session before any window
\* is shown: no overlay window was created, no event was handled and nothing is
\* returned; the capture is attempted before the window is created.
C21_CaptureBeforeWindow ==
    /\ win_grab = "failed" =>
          /\ win_root = "none"
          /\ ~win_event_seen
          /\ win_result = None
    /\ win_root # "none" => win_grab # "none"

\* C22: a toolkit failure while a session creates or builds its window is
\* caught by the session: neither select() nor _show_result_ui is left by an
\* exception, and no half-built window stays open.
C22_UiFailureCaught ==
    /\ selPc # "raised" /\ overlay_root # "partial"
    /\ revPc # "raised" /\ review_root # "partial"

\* C23: whenever select() has returned after creating the full-screen overlay
\* window, that window has been destroyed, whichever way the session ended
\* (selection, Escape, right-click, undersized rectangle, crop/save error).
C23_OverlayDestroyedOnReturn ==
    (selPc = "returned" /\ overlay_root # "none") => overlay_root = "destroyed"

C23_Witness ==
    /\ selPc = "returned"
    /\ overlay_root = "destroyed"
    /\ saveError
    /\ self_result = None

C23_WitnessUndersized ==
    /\ selPc = "returned"
    /\ overlay_root = "destroyed"
    /\ selection.done
    /\ ~selection.cancelled
    /\ ~ReachesSave(selection)

\* The unit cells of the canvas filled by a rectangle <<x0, y0, x1, y1>>.
Cells(r) == {<<i, j>> : i \in r[1]..(r[3] - 1), j \in r[2]..(r[4] - 1)}

\* The last handler to change the selection was on_motion with a start: the
\* window is up and both corners are set (on_press clears end, on_release with
\* a start destroys the window).
AfterMotion ==
    /\ overlay_root = "alive"
    /\ selection.start # None
    /\ selection.end # None

SelectionInsideScreen ==
    /\ 0 <= selection_rect_id[1] /\ selection_rect_id[3] <= screen_size[1]
    /\ 0 <= selection_rect_id[2] /\ selection_rect_id[4] <= screen_size[2]

\* C24: after a motion event with a start and the selection rectangle inside
\* the screen, the dim strips are pairwise disjoint, none meets the interior of
\* the rectangle, and strips and rectangle together cover the screen; while no
\* press has happened no strip is drawn.
C24_StripsPartitionScreen ==
    /\ selection.start = None => dim_rects = <<>>
    /\ (AfterMotion /\ SelectionInsideScreen) =>
          /\ \A i, j \in 1..Len(dim_rects) :
                i # j => Cells(dim_rects[i]) \cap Cells(dim_rects[j]) = {}
          /\ \A i \in 1..Len(dim_rects) :
                Cells(dim_rects[i]) \cap Cells(selection_rect_id) = {}
          /\ UNION {Cells(dim_rects[i]) : i \in 1..Len(dim_rects)}
                \cup Cells(selection_rect_id)
                = Cells(<<0, 0, screen_size[1], screen_size[2]>>)

C24_Witness ==
    /\ AfterMotion /\ SelectionInsideScreen
    /\ Cells(selection_rect_id) # {}
    /\ Len(dim_rects) >= 2

C24_WitnessNoPress ==
    /\ overlay_root = "alive"
    /\ selection.start = None
    /\ releasePt # None

\* C25: every strip created by draw_dimmed_overlay has strictly positive
\* width and strictly positive height, for every start/end pair (rectangle at
\* a screen edge, or of zero width or zero height).
C25_StripsNonEmpty ==
    AfterMotion =>
        \A i \in 1..Len(dim_rects) :
            /\ dim_rects[i][3] - dim_rects[i][1] > 0
            /\ dim_rects[i][4] - dim_rects[i][2] > 0

\* C26: the review session places its window where the panel placement
\* algorithm puts a panel of the same size: the position set by _show_result_ui
\* equals calculate_position(rect, (panel_width, panel_height), screen_bounds).
C26_PlacementDelegated ==
    (revPc # "idle" /\ position # None)
        => position = calculate_position(rect, <<panel_width, panel_height>>,
                                         screen_bounds)

\* the events a single pinned window handles
WindowEvents == {"press", "motion", "menu", "copy_text", "copy_latex", "close"}

\* C27: a drag, context-menu, copy or close event handled by one pinned
\* window leaves every other pinned window's position, text, math markup,
\* open/closed state and registry membership unchanged, and leaves its own
\* text and math markup unchanged.
C27_PinnedIndependent ==
    [][(ops' = ops + 1 /\ last_op'[1] \in WindowEvents)
        => LET i == last_op'[2]
           IN  /\ DOMAIN pinned_objs' = DOMAIN pinned_objs
               /\ \A j \in DOMAIN pinned_objs \ {i} :
                     /\ pinned_objs'[j].x = pinned_objs[j].x
                     /\ pinned_objs'[j].y = pinned_objs[j].y
                     /\ pinned_objs'[j].text = pinned_objs[j].text
                     /\ pinned_objs'[j].latex = pinned_objs[j].latex
                     /\ pinned_objs'[j].window = pinned_objs[j].window
                     /\ Count(pinned_windows', j) = Count(pinned_windows, j)
               /\ pinned_objs'[i].text = pinned_objs[i].text
               /\ pinned_objs'[i].latex = pinned_objs[i].latex]_vars

\* a window was closed while another one stays open and registered
C27_Witness ==
    /\ last_op[1] = "close"
    /\ WasShown(last_op[2])
    /\ pinned_objs[last_op[2]].window = "none"
    /\ \E j \in DOMAIN pinned_objs \ {last_op[2]} :
          pinned_objs[j].window = "open" /\ Count(pinned_windows, j) = 1

\* a window was dragged while another one is open
C27_WitnessDrag ==
    /\ last_op[1] = "motion"
    /\ drag_origin[last_op[2]] # None
    /\ \E j \in DOMAIN pinned_objs \ {last_op[2]} : pinned_objs[j].window = "open"

\* C28: after any sequence of show(), close() and close_all() calls, show()
\* more than once on an instance included, the registry holds each instance
\* at most once, an instance is in the registry exactly when it has an open
\* window, and no window created by show() is open without being tracked.
C28_RegistryMatchesWindows ==
    /\ \A i \in DOMAIN pinned_objs :
          /\ Count(pinned_windows, i) <= 1
          /\ Count(pinned_windows, i) >= 1 <=> pinned_objs[i].window = "open"
    /\ orphans = 0

(***************************************************************************)
(* HotkeyManager (hotkey/manager.py) over WindowsHotkeyManager             *)
(* (platform/windows.py)                                                   *)
(***************************************************************************)
\* dicts as sets of <<key, value>> items
Keys(d) == {e[1] : e \in d}
DictSet(d, k, v) == {e \in d : e[1] # k} \cup {<<k, v>>}
DictDel(d, k) == {e \in d : e[1] # k}

UpperCase == <<"A", "B", "C", "D", "E", "F", "G", "H", "I", "J", "K", "L", "M",
               "N", "O", "P", "Q", "R", "S", "T", "U", "V", "W", "X", "Y", "Z">>
LowerCase == <<"a", "b", "c", "d", "e", "f", "g", "h", "i", "j", "k", "l", "m",
               "n", "o", "p", "q", "r", "s", "t", "u", "v", "w", "x", "y", "z">>

\* str.lower()
lower(str) ==
    [k \in DOMAIN str |->
        IF \E n \in DOMAIN UpperCase : UpperCase[n] = str[k]
        THEN LowerCase[CHOOSE n \in DOMAIN UpperCase : UpperCase[n] = str[k]]
        ELSE str[k]]

\* str.replace(' ', '')
remove_spaces(str) == SelectSeq(str, LAMBDA c : c # " ")

\* str.split('+'): the pieces between the '+' signs, empty pieces included
RECURSIVE split_plus(_)
split_plus(str) ==
    IF \E k \in DOMAIN str : str[k] = "+"
    THEN LET k == CHOOSE k \in DOMAIN str :
                      str[k] = "+" /\ \A m \in 1..(k - 1) : str[m] # "+"
         IN  <<SubSeq(str, 1, k - 1)>> \o split_plus(SubSeq(str, k + 1, Len(str)))
    ELSE <<str>>

\* the replacements table of _normalize_hotkey
replacements ==
    {<< <<"c", "t", "r", "l">>, <<"<", "c", "t", "r", "l", ">">> >>,
     << <<"a", "l", "t">>, <<"<", "a", "l", "t", ">">> >>,
     << <<"s", "h", "i", "f", "t">>, <<"<", "s", "h", "i", "f", "t", ">">> >>,
     << <<"w", "i", "n">>, <<"<", "c", "m", "d", ">">> >>,
     << <<"w", "i", "n", "d", "o", "w", "s">>, <<"<", "c", "m", "d", ">">> >>,
     << <<"s", "u", "p", "e", "r">>, <<"<", "c", "m", "d", ">">> >>,
     << <<"m", "e", "t", "a">>, <<"<", "c", "m", "d", ">">> >>}

\* _normalize_hotkey(hotkey): lower-case, strip, drop the spaces, split at '+',
\* rewrite each part, join with '+'
normalize_hotkey(hotkey) ==
    LET parts == split_plus(remove_spaces(strip(lower(hotkey))))
        normalized_parts ==
            [k \in DOMAIN parts |->
                IF parts[k] \in Keys(replacements)
                THEN (CHOOSE e \in replacements : e[1] = parts[k])[2]
                ELSE IF Len(parts[k]) = 1 THEN parts[k]
                ELSE <<"<">> \o parts[k] \o <<">">>]
    IN  join(<<"+">>, normalized_parts)

\* the hotkey strings passed to the manager: "ctrl+o", "Ctrl+O", "ctrl + o"
\* (one key combination in three spellings) and "f5"
HotkeyStrings ==
    {<<"c", "t", "r", "l", "+", "o">>,
     <<"C", "t", "r", "l", "+", "O">>,
     <<"c", "t", "r", "l", " ", "+", " ", "o">>,
     <<"f", "5">>}

\* _normalize_hotkey tabulated over the hotkey strings of the model
Normalized == [h \in HotkeyStrings |-> normalize_hotkey(h)]

\* the callbacks passed to the manager
Callbacks == {"cb1", "cb2"}

\* what the listener's stop() and start do during one call: both work, stop()
\* raises, or creating the GlobalHotKeys listener raises
EnvOutcomes == {"ok", "stop_raises", "start_fails"}

\* WindowsHotkeyManager.stop(): [p |-> the manager afterwards, raised |-> whether
\* self._listener.stop() raised]
platform_stop(p, env) ==
    IF p.listener # None
    THEN IF env = "stop_raises"
         THEN [p |-> [p EXCEPT !.failed = TRUE], raised |-> TRUE]
         ELSE [p |-> [p EXCEPT !.listener = None, !.running = FALSE],
               raised |-> FALSE]
    ELSE [p |-> [p EXCEPT !.running = FALSE], raised |-> FALSE]

\* WindowsHotkeyManager.start(): nothing when running; a listener over the
\* current hotkeys when there is one; failures are caught and printed
platform_start(p, env) ==
    IF p.running THEN p
    ELSE IF env = "start_fails" THEN [p EXCEPT !.failed = TRUE]
    ELSE IF p.hotkeys # {}
         THEN [p EXCEPT !.listener = Some(p.hotkeys), !.running = TRUE]
         ELSE p

\* "if self._running: self.stop(); self.start()" inside the try of register and
\* unregister: ok is FALSE when stop() raised
platform_restart(p, env) ==
    IF p.running
    THEN LET stopped == platform_stop(p, env)
         IN  IF stopped.raised THEN [p |-> stopped.p, ok |-> FALSE]
             ELSE [p |-> platform_start(stopped.p, env), ok |-> TRUE]
    ELSE [p |-> p, ok |-> TRUE]

\* WindowsHotkeyManager.register(hotkey, callback)
platform_register(p, hotkey, callback, env) ==
    LET normalized == Normalized[hotkey]
    IN  platform_restart([p EXCEPT !.hotkeys = DictSet(p.hotkeys, normalized, callback)],
                         env)

\* WindowsHotkeyManager.unregister(hotkey)
platform_unregister(p, hotkey, env) ==
    LET normalized == Normalized[hotkey]
    IN  IF normalized \in Keys(p.hotkeys)
        THEN platform_restart([p EXCEPT !.hotkeys = DictDel(p.hotkeys, normalized)], env)
        ELSE [p |-> p, ok |-> TRUE]

\* WindowsHotkeyManager.is_registered(hotkey)
platform_is_registered(p, hotkey) == Normalized[hotkey] \in Keys(p.hotkeys)

\* HotkeyManager.is_registered(hotkey)
is_registered(hotkey) == platform_is_registered(hk_platform, hotkey)

\* HotkeyManager.get_registered_hotkeys(): a copy of _callbacks
get_registered_hotkeys == hk_callbacks

\* HotkeyManager.register on a manager m = [callbacks, platform]
manager_register(m, hotkey, callback, env) ==
    LET r == platform_register(m.platform, hotkey, callback, env)
    IN  [m |-> [callbacks |-> DictSet(m.callbacks, hotkey, callback),
                platform |-> r.p],
         ret |-> r.ok]

\* HotkeyManager.unregister on a manager m
manager_unregister(m, hotkey, env) ==
    LET r == platform_unregister(m.platform, hotkey, env)
    IN  [m |-> [callbacks |-> DictDel(m.callbacks, hotkey), platform |-> r.p],
         ret |-> r.ok]

\* HotkeyManager.unregister_all on a manager m: unregister every key of
\* _callbacks (the outcome does not depend on the order of the keys)
RECURSIVE manager_unregister_all(_, _, _)
manager_unregister_all(m, todo, env) ==
    IF todo = {} THEN m
    ELSE LET hotkey == CHOOSE h \in todo : TRUE
         IN  manager_unregister_all(manager_unregister(m, hotkey, env).m,
                                    todo \ {hotkey}, env)

Manager == [callbacks |-> hk_callbacks, platform |-> hk_platform]

HotkeyInit ==
    /\ SelIdle
    /\ PlaceIdle
    /\ RevIdle
    /\ PinIdle
    /\ CapIdle
    /\ ExtIdle

\* HotkeyManager.register(hotkey, callback)
register(hotkey, callback, env) ==
    LET r == manager_register(Manager, hotkey, callback, env)
    IN  /\ hk_callbacks' = r.m.callbacks
        /\ hk_platform' = r.m.platform
        /\ hk_ret' = IF r.ret THEN "True" ELSE "False"
        /\ UNCHANGED hk_listening
        /\ UNCHANGED nonHkVars

\* HotkeyManager.unregister(hotkey)
unregister(hotkey, env) ==
    LET r == manager_unregister(Manager, hotkey, env)
    IN  /\ hk_callbacks' = r.m.callbacks
        /\ hk_platform' = r.m.platform
        /\ hk_ret' = IF r.ret THEN "True" ELSE "False"
        /\ UNCHANGED hk_listening
        /\ UNCHANGED nonHkVars

\* HotkeyManager.unregister_all()
unregister_all(env) ==
    LET m == manager_unregister_all(Manager, Keys(hk_callbacks), env)
    IN  /\ hk_callbacks' = m.callbacks
        /\ hk_platform' = m.platform
        /\ hk_ret' = "None"
        /\ UNCHANGED hk_listening
        /\ UNCHANGED nonHkVars

\* HotkeyManager.start()
start(env) ==
    /\ hk_platform' = platform_start(hk_platform, env)
    /\ hk_ret' = "None"
    /\ hk_listening' = (hk_listening \/ hk_platform'.running)
    /\ UNCHANGED hk_callbacks
    /\ UNCHANGED nonHkVars

\* HotkeyManager.stop(): an exception of the listener's stop() is not caught
stop(env) ==
    LET stopped == platform_stop(hk_platform, env)
    IN  /\ hk_platform' = stopped.p
        /\ hk_ret' = IF stopped.raised THEN "raised" ELSE "None"
        /\ hk_listening' = FALSE
        /\ UNCHANGED hk_callbacks
        /\ UNCHANGED nonHkVars

\* HotkeyManager.update_hotkey(old_hotkey, new_hotkey, callback):
\* unregister(old_hotkey), then register(new_hotkey, callback)
update_hotkey(old_hotkey, new_hotkey, callback, env) ==
    LET u == manager_unregister(Manager, old_hotkey, env)
        r == manager_register(u.m, new_hotkey, callback, env)
    IN  /\ hk_callbacks' = r.m.callbacks
        /\ hk_platform' = r.m.platform
        /\ hk_ret' = IF r.ret THEN "True" ELSE "False"
        /\ UNCHANGED hk_listening
        /\ UNCHANGED nonHkVars

HotkeyNext ==
    \/ \E h \in HotkeyStrings, cb \in Callbacks, env \in EnvOutcomes :
          register(h, cb, env)
    \/ \E h \in HotkeyStrings, env \in EnvOutcomes : unregister(h, env)
    \/ \E env \in EnvOutcomes : unregister_all(env)
    \/ \E env \in EnvOutcomes : start(env)
    \/ \E env \in EnvOutcomes : stop(env)
    \/ \E old_hotkey \in HotkeyStrings, new_hotkey \in HotkeyStrings,
          cb \in Callbacks, env \in EnvOutcomes :
          update_hotkey(old_hotkey, new_hotkey, cb, env)

SpecHotkey == HotkeyInit /\ [][HotkeyNext]_vars

\* C29: once the manager has been started into listening, after any later
\* register, unregister and update_hotkey calls with no stop() (and no failure
\* of the listener), it is listening whenever a hotkey is registered, for the
\* hotkeys registered; so after update_hotkey on the only registered hotkey it
\* listens for the new one.
C29_StillListening ==
    (hk_listening /\ ~hk_platform.failed /\ hk_platform.hotkeys # {})
        => /\ hk_platform.running
           /\ hk_platform.listener = Some(hk_platform.hotkeys)

\* C30: the keys of get_registered_hotkeys() are exactly the hotkeys h for
\* which is_registered(h) is true, spellings of one key combination that differ
\* in case or spacing counting as one hotkey: every listed key is registered,
\* and every registered hotkey is listed in some spelling.
C30_RegisteredKeysAgree ==
    /\ \A k \in Keys(get_registered_hotkeys) : is_registered(k)
    /\ \A h \in HotkeyStrings :
          is_registered(h)
              => \E k \in Keys(get_registered_hotkeys) : Normalized[k] = Normalized[h]

====
